---- MODULE Spec2Model ----
(***************************************************************************)
(* Model of main.go: the Google Forms prefill-URL generator.               *)
(*                                                                         *)
(* A Go string is modelled as a sequence of one-character strings, so that *)
(* parsing, escaping and unescaping are computed character by character,   *)
(* as net/url computes them.  The double quote and the backslash are       *)
(* written "DQUOTE" and "BACKSLASH", the backquote "BACKTICK".             *)
(***************************************************************************)
EXTENDS Integers, Sequences, FiniteSets, TLC

(***************************************************************************)
(* Bytes: the printable ASCII range 0x20..0x7E, in code order.             *)
(***************************************************************************)
Chars ==
    <<" ", "!", "DQUOTE", "#", "$", "%", "&", "'", "(", ")", "*", "+", ",", "-", ".", "/",
      "0", "1", "2", "3", "4", "5", "6", "7", "8", "9", ":", ";", "<", "=", ">", "?", "@",
      "A", "B", "C", "D", "E", "F", "G", "H", "I", "J", "K", "L", "M", "N", "O", "P", "Q",
      "R", "S", "T", "U", "V", "W", "X", "Y", "Z", "[", "BACKSLASH", "]", "^", "_", "BACKTICK",
      "a", "b", "c", "d", "e", "f", "g", "h", "i", "j", "k", "l", "m", "n", "o", "p", "q",
      "r", "s", "t", "u", "v", "w", "x", "y", "z", "{", "|", "}", "~">>

CharSet == {Chars[k] : k \in 1..Len(Chars)}

\* the byte value of a character
CodeOf == [c \in CharSet |-> 31 + (CHOOSE k \in 1..Len(Chars) : Chars[k] = c)]

Code(c) == CodeOf[c]

\* the character of a byte value (only printable bytes occur in the inputs)
Chr(n) == Chars[n - 31]

InRange(c, lo, hi) == Code(lo) <= Code(c) /\ Code(c) <= Code(hi)

IsLower(c) == InRange(c, "a", "z")
IsUpper(c) == InRange(c, "A", "Z")
IsDigit(c) == InRange(c, "0", "9")
IsAlnum(c) == IsLower(c) \/ IsUpper(c) \/ IsDigit(c)

(***************************************************************************)
(* package strings                                                         *)
(***************************************************************************)
SubStr(s, a, b) == IF a > b THEN <<>> ELSE SubSeq(s, a, b)

\* strings.IndexByte, 1-based; 0 when absent
IndexOf(s, c) ==
    IF \E k \in 1..Len(s) : s[k] = c
    THEN CHOOSE k \in 1..Len(s) : s[k] = c /\ \A j \in 1..(k - 1) : s[j] # c
    ELSE 0

\* strings.LastIndex for a single byte, 1-based; 0 when absent
LastIndexOf(s, c) ==
    IF \E k \in 1..Len(s) : s[k] = c
    THEN CHOOSE k \in 1..Len(s) : s[k] = c /\ \A j \in (k + 1)..Len(s) : s[j] # c
    ELSE 0

HasByte(s, c) == \E k \in 1..Len(s) : s[k] = c

HasPrefix(s, p) == Len(p) <= Len(s) /\ SubStr(s, 1, Len(p)) = p

HasSuffix(s, p) == Len(p) <= Len(s) /\ SubStr(s, Len(s) - Len(p) + 1, Len(s)) = p

\* strings.Contains
Contains(s, sub) ==
    \E k \in 1..(Len(s) - Len(sub) + 1) : SubStr(s, k, k + Len(sub) - 1) = sub

\* strings.Count for a single byte
CountByte(s, c) == Cardinality({k \in 1..Len(s) : s[k] = c})

\* strings.Cut(s, c): the text before and after the first c
CutBefore(s, c) == IF IndexOf(s, c) = 0 THEN s ELSE SubStr(s, 1, IndexOf(s, c) - 1)
CutAfter(s, c) == IF IndexOf(s, c) = 0 THEN <<>> ELSE SubStr(s, IndexOf(s, c) + 1, Len(s))

\* strings.ToLower on ASCII
LowerChar(c) == IF IsUpper(c) THEN Chr(Code(c) + 32) ELSE c
ToLower(s) == [k \in 1..Len(s) |-> LowerChar(s[k])]

\* Go's string comparison s < t: bytewise lexicographic
RECURSIVE StrLess(_, _)
StrLess(s, t) ==
    IF t = <<>> THEN FALSE
    ELSE IF s = <<>> THEN TRUE
    ELSE IF s[1] # t[1] THEN Code(s[1]) < Code(t[1])
    ELSE StrLess(Tail(s), Tail(t))

(***************************************************************************)
(* net/url: escaping                                                       *)
(***************************************************************************)
HexDigits == <<"0", "1", "2", "3", "4", "5", "6", "7", "8", "9", "A", "B", "C", "D", "E", "F">>

ishex(c) == IsDigit(c) \/ InRange(c, "a", "f") \/ InRange(c, "A", "F")

unhex(c) ==
    IF IsDigit(c) THEN Code(c) - Code("0")
    ELSE IF InRange(c, "a", "f") THEN Code(c) - Code("a") + 10
    ELSE IF InRange(c, "A", "F") THEN Code(c) - Code("A") + 10
    ELSE 0

HostChars == {"!", "$", "&", "'", "(", ")", "*", "+", ",", ";", "=", ":", "[", "]", "<", ">", "DQUOTE"}

ReservedChars == {"$", "&", "+", ",", "/", ":", ";", "=", "?", "@"}

\* net/url shouldEscape(c, mode)
shouldEscape(c, mode) ==
    IF IsAlnum(c) THEN FALSE
    ELSE IF mode \in {"host", "zone"} /\ c \in HostChars THEN FALSE
    ELSE IF c \in {"-", "_", ".", "~"} THEN FALSE
    ELSE IF c \in ReservedChars /\ mode = "path" THEN c = "?"
    ELSE IF c \in ReservedChars /\ mode = "pathSegment" THEN c \in {"/", ";", ",", "?"}
    ELSE IF c \in ReservedChars /\ mode = "userPassword" THEN c \in {"@", "/", "?", ":"}
    ELSE IF c \in ReservedChars /\ mode = "queryComponent" THEN TRUE
    ELSE IF c \in ReservedChars /\ mode = "fragment" THEN FALSE
    ELSE IF mode = "fragment" /\ c \in {"!", "(", ")", "*"} THEN FALSE
    ELSE TRUE

PercentEncoded(c) == <<"%", HexDigits[(Code(c) \div 16) + 1], HexDigits[(Code(c) % 16) + 1]>>

\* escapeChar leaving "%" as it is
escapeChar_mut(c, mode) ==
    IF shouldEscape(c, mode) /\ c # "%"
    THEN IF c = " " /\ mode = "queryComponent" THEN <<"+">> ELSE PercentEncoded(c)
    ELSE <<c>>

escapeChar(c, mode) ==
    IF shouldEscape(c, mode)
    THEN IF c = " " /\ mode = "queryComponent" THEN <<"+">> ELSE PercentEncoded(c)
    ELSE <<c>>

\* net/url escape(s, mode)
RECURSIVE escape(_, _)
escape(s, mode) ==
    IF s = <<>> THEN <<>> ELSE escapeChar(s[1], mode) \o escape(Tail(s), mode)

\* the first pass of net/url unescape: TRUE when it returns no error
RECURSIVE unescapeOK(_, _)
unescapeOK(s, mode) ==
    IF s = <<>> THEN TRUE
    ELSE IF s[1] = "%"
    THEN /\ Len(s) >= 3
         /\ ishex(s[2])
         /\ ishex(s[3])
         /\ ~(mode = "host" /\ unhex(s[2]) < 8 /\ SubStr(s, 1, 3) # <<"%", "2", "5">>)
         /\ unescapeOK(SubStr(s, 4, Len(s)), mode)
    ELSE /\ ~(mode \in {"host", "zone"} /\ s[1] # "+" /\ shouldEscape(s[1], "host"))
         /\ unescapeOK(Tail(s), mode)

\* the second pass of net/url unescape, on a string the first pass accepted
RECURSIVE unescapeVal(_, _)
unescapeVal(s, mode) ==
    IF s = <<>> THEN <<>>
    ELSE IF s[1] = "%"
    THEN <<Chr(unhex(s[2]) * 16 + unhex(s[3]))>> \o unescapeVal(SubStr(s, 4, Len(s)), mode)
    ELSE IF s[1] = "+" /\ mode = "queryComponent"
    THEN <<" ">> \o unescapeVal(Tail(s), mode)
    ELSE <<s[1]>> \o unescapeVal(Tail(s), mode)

QueryEscape(s) == escape(s, "queryComponent")

QueryUnescapeOK(s) == unescapeOK(s, "queryComponent")

QueryUnescape(s) == unescapeVal(s, "queryComponent")

(***************************************************************************)
(* net/url: the URL structure and url.Parse                                *)
(***************************************************************************)
NoUser == [present |-> FALSE, username |-> <<>>, password |-> <<>>, passwordSet |-> FALSE]

\* the zero value of url.URL
EmptyURL ==
    [Scheme |-> <<>>, Opaque |-> <<>>, User |-> NoUser, Host |-> <<>>, Path |-> <<>>,
     RawPath |-> <<>>, OmitHost |-> FALSE, ForceQuery |-> FALSE, RawQuery |-> <<>>,
     Fragment |-> <<>>, RawFragment |-> <<>>]

ParseFailed == [ok |-> FALSE, url |-> EmptyURL]

\* net/url getScheme, scanning from position i
RECURSIVE getSchemeAt(_, _)
getSchemeAt(rawURL, i) ==
    IF i > Len(rawURL) THEN [err |-> FALSE, scheme |-> <<>>, rest |-> rawURL]
    ELSE LET c == rawURL[i] IN
         IF IsLower(c) \/ IsUpper(c) THEN getSchemeAt(rawURL, i + 1)
         ELSE IF IsDigit(c) \/ c \in {"+", "-", "."}
         THEN IF i = 1 THEN [err |-> FALSE, scheme |-> <<>>, rest |-> rawURL]
              ELSE getSchemeAt(rawURL, i + 1)
         ELSE IF c = ":"
         THEN IF i = 1 THEN [err |-> TRUE, scheme |-> <<>>, rest |-> <<>>]
              ELSE [err |-> FALSE, scheme |-> SubStr(rawURL, 1, i - 1),
                    rest |-> SubStr(rawURL, i + 1, Len(rawURL))]
         ELSE [err |-> FALSE, scheme |-> <<>>, rest |-> rawURL]

getScheme(rawURL) == getSchemeAt(rawURL, 1)

\* net/url validOptionalPort
validOptionalPort(port) ==
    \/ port = <<>>
    \/ /\ port[1] = ":"
       /\ \A k \in 2..Len(port) : IsDigit(port[k])

\* net/url parseHost (without IPv6 zone identifiers)
parseHostOK(host) ==
    /\ IF HasPrefix(host, <<"[">>)
       THEN /\ LastIndexOf(host, "]") > 0
            /\ validOptionalPort(SubStr(host, LastIndexOf(host, "]") + 1, Len(host)))
       ELSE \/ LastIndexOf(host, ":") = 0
            \/ validOptionalPort(SubStr(host, LastIndexOf(host, ":"), Len(host)))
    /\ unescapeOK(host, "host")

UserinfoChars ==
    {"-", ".", "_", ":", "~", "!", "$", "&", "'", "(", ")", "*", "+", ",", ";", "=", "%", "@"}

\* net/url validUserinfo
validUserinfo(s) == \A k \in 1..Len(s) : IsAlnum(s[k]) \/ s[k] \in UserinfoChars

\* net/url parseAuthority: [ok, user, host]
parseAuthority(authority) ==
    LET i == LastIndexOf(authority, "@")
        hostPart == IF i = 0 THEN authority ELSE SubStr(authority, i + 1, Len(authority))
        userinfo == SubStr(authority, 1, i - 1)
        username == CutBefore(userinfo, ":")
        password == CutAfter(userinfo, ":")
    IN  IF ~parseHostOK(hostPart) THEN [ok |-> FALSE, user |-> NoUser, host |-> <<>>]
        ELSE IF i = 0
        THEN [ok |-> TRUE, user |-> NoUser, host |-> unescapeVal(hostPart, "host")]
        ELSE IF \/ ~validUserinfo(userinfo)
                \/ ~unescapeOK(username, "userPassword")
                \/ ~unescapeOK(password, "userPassword")
        THEN [ok |-> FALSE, user |-> NoUser, host |-> <<>>]
        ELSE [ok |-> TRUE,
              user |-> [present |-> TRUE,
                        username |-> unescapeVal(username, "userPassword"),
                        password |-> unescapeVal(password, "userPassword"),
                        passwordSet |-> HasByte(userinfo, ":")],
              host |-> unescapeVal(hostPart, "host")]

\* (*URL).setPath: [ok, url]
setPath(url, p) ==
    IF ~unescapeOK(p, "path") THEN ParseFailed
    ELSE LET path == unescapeVal(p, "path") IN
         [ok |-> TRUE,
          url |-> [url EXCEPT !.Path = path,
                              !.RawPath = IF p = escape(path, "path") THEN <<>> ELSE p]]

\* (*URL).setFragment: [ok, url]
setFragment(url, f) ==
    IF ~unescapeOK(f, "fragment") THEN ParseFailed
    ELSE LET frag == unescapeVal(f, "fragment") IN
         [ok |-> TRUE,
          url |-> [url EXCEPT !.Fragment = frag,
                              !.RawFragment = IF f = escape(frag, "fragment") THEN <<>> ELSE f]]

\* net/url parse(rawURL, viaRequest = false): [ok, url].  The rejection of ASCII
\* control bytes is left out: the strings here hold printable bytes only.
parse(rawURL) ==
    LET gs == getScheme(rawURL)
        forceQuery == HasSuffix(gs.rest, <<"?">>) /\ CountByte(gs.rest, "?") = 1
        rest == IF forceQuery THEN SubStr(gs.rest, 1, Len(gs.rest) - 1)
                ELSE CutBefore(gs.rest, "?")
        u0 == [EmptyURL EXCEPT !.Scheme = ToLower(gs.scheme),
                               !.ForceQuery = forceQuery,
                               !.RawQuery = IF forceQuery THEN <<>> ELSE CutAfter(gs.rest, "?")]
        hasAuthority ==
            /\ HasPrefix(rest, <<"/", "/">>)
            /\ (u0.Scheme # <<>> \/ ~HasPrefix(rest, <<"/", "/", "/">>))
        afterSlashes == SubStr(rest, 3, Len(rest))
        authority == CutBefore(afterSlashes, "/")
        pathRest == IF IndexOf(afterSlashes, "/") = 0 THEN <<>>
                    ELSE SubStr(afterSlashes, IndexOf(afterSlashes, "/"), Len(afterSlashes))
        pa == parseAuthority(authority)
    IN  IF rawURL = <<"*">> THEN [ok |-> TRUE, url |-> [EmptyURL EXCEPT !.Path = <<"*">>]]
        ELSE IF gs.err THEN ParseFailed
        ELSE IF ~HasPrefix(rest, <<"/">>) /\ u0.Scheme # <<>>
        THEN [ok |-> TRUE, url |-> [u0 EXCEPT !.Opaque = rest]]
        ELSE IF ~HasPrefix(rest, <<"/">>) /\ HasByte(CutBefore(rest, "/"), ":")
        THEN ParseFailed
        ELSE IF hasAuthority
        THEN IF ~pa.ok THEN ParseFailed
             ELSE setPath([u0 EXCEPT !.User = pa.user, !.Host = pa.host], pathRest)
        ELSE IF u0.Scheme # <<>> /\ HasPrefix(rest, <<"/">>)
        THEN setPath([u0 EXCEPT !.OmitHost = TRUE], rest)
        ELSE setPath(u0, rest)

\* url.Parse(rawURL): [ok, url]
Parse(rawURL) ==
    LET p == parse(CutBefore(rawURL, "#"))
        frag == CutAfter(rawURL, "#")
    IN  IF ~p.ok THEN ParseFailed
        ELSE IF frag = <<>> THEN p
        ELSE setFragment(p.url, frag)

\* net/url validEncoded
validEncoded(s, mode) ==
    \A k \in 1..Len(s) :
        \/ s[k] \in {"!", "$", "&", "'", "(", ")", "*", "+", ",", ";", "=", ":", "@", "[", "]", "%"}
        \/ ~shouldEscape(s[k], mode)

\* (*URL).EscapedPath
EscapedPath(u) ==
    IF /\ u.RawPath # <<>>
       /\ validEncoded(u.RawPath, "path")
       /\ unescapeOK(u.RawPath, "path")
       /\ unescapeVal(u.RawPath, "path") = u.Path
    THEN u.RawPath
    ELSE IF u.Path = <<"*">> THEN <<"*">>
    ELSE escape(u.Path, "path")

\* (*URL).EscapedFragment
EscapedFragment(u) ==
    IF /\ u.RawFragment # <<>>
       /\ validEncoded(u.RawFragment, "fragment")
       /\ unescapeOK(u.RawFragment, "fragment")
       /\ unescapeVal(u.RawFragment, "fragment") = u.Fragment
    THEN u.RawFragment
    ELSE escape(u.Fragment, "fragment")

\* (*Userinfo).String
UserinfoString(user) ==
    escape(user.username, "userPassword")
        \o (IF user.passwordSet THEN <<":">> \o escape(user.password, "userPassword") ELSE <<>>)

\* (*URL).String
URLString(u) ==
    LET schemePart == IF u.Scheme # <<>> THEN u.Scheme \o <<":">> ELSE <<>>
        authPart ==
            IF u.Scheme # <<>> \/ u.Host # <<>> \/ u.User.present
            THEN IF u.OmitHost /\ u.Host = <<>> /\ ~u.User.present THEN <<>>
                 ELSE (IF u.Host # <<>> \/ u.Path # <<>> \/ u.User.present
                       THEN <<"/", "/">> ELSE <<>>)
                      \o (IF u.User.present THEN UserinfoString(u.User) \o <<"@">> ELSE <<>>)
                      \o (IF u.Host # <<>> THEN escape(u.Host, "host") ELSE <<>>)
            ELSE <<>>
        path == EscapedPath(u)
        slash == IF path # <<>> /\ path[1] # "/" /\ u.Host # <<>> THEN <<"/">> ELSE <<>>
        dotSlash ==
            IF schemePart \o authPart \o slash = <<>> /\ HasByte(CutBefore(path, "/"), ":")
            THEN <<".", "/">> ELSE <<>>
        body == IF u.Opaque # <<>> THEN u.Opaque ELSE authPart \o slash \o dotSlash \o path
    IN  schemePart \o body
            \o (IF u.ForceQuery \/ u.RawQuery # <<>> THEN <<"?">> \o u.RawQuery ELSE <<>>)
            \o (IF u.Fragment # <<>> THEN <<"#">> \o EscapedFragment(u) ELSE <<>>)

(***************************************************************************)
(* net/url: url.Values, a map from key to the list of its values           *)
(***************************************************************************)
NoValues == [k \in {} |-> <<>>]

ValuesGet(v, key) == IF key \in DOMAIN v /\ Len(v[key]) > 0 THEN v[key][1] ELSE <<>>

ValuesSet(v, key, value) ==
    [k \in DOMAIN v \cup {key} |-> IF k = key THEN <<value>> ELSE v[k]]

ValuesAdd(v, key, value) ==
    [k \in DOMAIN v \cup {key} |->
        IF k = key THEN (IF key \in DOMAIN v THEN v[key] ELSE <<>>) \o <<value>> ELSE v[k]]

ValuesDel(v, key) == [k \in DOMAIN v \ {key} |-> v[k]]

\* net/url parseQuery: malformed pairs are skipped
RECURSIVE parseQuery(_, _)
parseQuery(m, query) ==
    IF query = <<>> THEN m
    ELSE LET pair == CutBefore(query, "&")
             rest == CutAfter(query, "&")
             key == CutBefore(pair, "=")
             value == CutAfter(pair, "=")
         IN  IF \/ HasByte(pair, ";")
                \/ pair = <<>>
                \/ ~QueryUnescapeOK(key)
                \/ ~QueryUnescapeOK(value)
             THEN parseQuery(m, rest)
             ELSE parseQuery(ValuesAdd(m, QueryUnescape(key), QueryUnescape(value)), rest)

\* (*URL).Query: parses RawQuery, silently discarding malformed pairs
Query(u) == parseQuery(NoValues, u.RawQuery)

\* SortKeys in decreasing order
RECURSIVE SortKeys_mut(_)
SortKeys_mut(S) ==
    IF S = {} THEN <<>>
    ELSE LET greatest == CHOOSE x \in S : \A y \in S \ {x} : StrLess(y, x)
         IN  <<greatest>> \o SortKeys_mut(S \ {greatest})

\* the keys of a Values in increasing order
RECURSIVE SortKeys(_)
SortKeys(S) ==
    IF S = {} THEN <<>>
    ELSE LET least == CHOOSE x \in S : \A y \in S \ {x} : StrLess(x, y)
         IN  <<least>> \o SortKeys(S \ {least})

\* the pairs key=value of one key, each preceded by "&"
RECURSIVE EncodeKey(_, _)
EncodeKey(keyEscaped, vs) ==
    IF vs = <<>> THEN <<>>
    ELSE <<"&">> \o keyEscaped \o <<"=">> \o QueryEscape(vs[1]) \o EncodeKey(keyEscaped, Tail(vs))

RECURSIVE EncodeKeys(_, _)
EncodeKeys(v, keys) ==
    IF keys = <<>> THEN <<>>
    ELSE EncodeKey(QueryEscape(keys[1]), v[keys[1]]) \o EncodeKeys(v, Tail(keys))

\* Values.Encode: "key=value" pairs joined by "&", sorted by key
Encode(v) ==
    LET pairs == EncodeKeys(v, SortKeys(DOMAIN v))
    IN  IF pairs = <<>> THEN <<>> ELSE Tail(pairs)

(***************************************************************************)
(* String literals of main.go                                              *)
(***************************************************************************)
\* usp
S_usp == <<"u", "s", "p">>

\* sf_link
S_sf_link == <<"s", "f", "_", "l", "i", "n", "k">>

\* pp_url
S_pp_url == <<"p", "p", "_", "u", "r", "l">>

\* entry.
S_entryDot == <<"e", "n", "t", "r", "y", ".">>

\* {today}
S_today == <<"{", "t", "o", "d", "a", "y", "}">>

\* === Encoded URL ===
EncodedHeader == <<"=", "=", "=", " ", "E", "n", "c", "o", "d", "e", "d", " ", "U", "R", "L", " ", "=", "=", "=">>

\* === Decoded URL ===
DecodedHeader == <<"=", "=", "=", " ", "D", "e", "c", "o", "d", "e", "d", " ", "U", "R", "L", " ", "=", "=", "=">>

(***************************************************************************)
(* Inputs: the form_url values, question ids, answers and dates explored   *)
(***************************************************************************)
\* https://docs.google.com/forms/d/e/X/viewform?usp=sf_link
ScenarioURL ==
    <<"h", "t", "t", "p", "s", ":", "/", "/", "d", "o", "c", "s", ".", "g", "o", "o", "g", "l",
    "e", ".", "c", "o", "m", "/", "f", "o", "r", "m", "s", "/", "d", "/", "e", "/", "X", "/",
    "v", "i", "e", "w", "f", "o", "r", "m", "?", "u", "s", "p", "=", "s", "f", "_", "l", "i",
    "n", "k">>

\* not a url
NotAURL ==
    <<"n", "o", "t", " ", "a", " ", "u", "r", "l">>

\* http://h/f
PlainURL ==
    <<"h", "t", "t", "p", ":", "/", "/", "h", "/", "f">>

\* http://h/f?usp=x&a=1&a=2
OtherUspURL ==
    <<"h", "t", "t", "p", ":", "/", "/", "h", "/", "f", "?", "u", "s", "p", "=", "x", "&", "a",
    "=", "1", "&", "a", "=", "2">>

\* http://h/f?usp=sf_link&usp=y&entry.1=old
SeveralUspURL ==
    <<"h", "t", "t", "p", ":", "/", "/", "h", "/", "f", "?", "u", "s", "p", "=", "s", "f", "_",
    "l", "i", "n", "k", "&", "u", "s", "p", "=", "y", "&", "e", "n", "t", "r", "y", ".", "1",
    "=", "o", "l", "d">>

\* http://h/f?usp=y&usp=sf_link
LateSfLinkURL ==
    <<"h", "t", "t", "p", ":", "/", "/", "h", "/", "f", "?", "u", "s", "p", "=", "y", "&", "u",
    "s", "p", "=", "s", "f", "_", "l", "i", "n", "k">>

\* http://h/f?a=%zz&b=%41+c
MalformedQueryURL ==
    <<"h", "t", "t", "p", ":", "/", "/", "h", "/", "f", "?", "a", "=", "%", "z", "z", "&", "b",
    "=", "%", "4", "1", "+", "c">>

\* HTTP://h:80/f?a=1;b=2&c&d=%
SemicolonURL ==
    <<"H", "T", "T", "P", ":", "/", "/", "h", ":", "8", "0", "/", "f", "?", "a", "=", "1", ";",
    "b", "=", "2", "&", "c", "&", "d", "=", "%">>

\* http://u:p@h/a%20b?x=1#fr
UserinfoURL ==
    <<"h", "t", "t", "p", ":", "/", "/", "u", ":", "p", "@", "h", "/", "a", "%", "2", "0", "b",
    "?", "x", "=", "1", "#", "f", "r">>

\* mailto:x
OpaqueURL ==
    <<"m", "a", "i", "l", "t", "o", ":", "x">>

\* http://h/%zz
BadPathURL ==
    <<"h", "t", "t", "p", ":", "/", "/", "h", "/", "%", "z", "z">>

\* :x
NoSchemeURL ==
    <<":", "x">>

\* http://a b/
BadHostURL ==
    <<"h", "t", "t", "p", ":", "/", "/", "a", " ", "b", "/">>

FormURLs ==
    {<<>>, ScenarioURL, NotAURL, PlainURL, OtherUspURL, SeveralUspURL, LateSfLinkURL,
     MalformedQueryURL, SemicolonURL, UserinfoURL, OpaqueURL, BadPathURL,
     NoSchemeURL, BadHostURL}

\* 1
Id1 == <<"1">>

\* 2
Id2 == <<"2">>

QuestionIDs == {<<>>, Id1, Id2}

\* Tokyo
Tokyo == <<"T", "o", "k", "y", "o">>

\* x{today}
NearToday == <<"x", "{", "t", "o", "d", "a", "y", "}">>

\* a b&c=%
Special == <<"a", " ", "b", "&", "c", "=", "%">>

Answers == {S_today, Tokyo, NearToday, Special}

\* 2024-01-15
Date1 == <<"2", "0", "2", "4", "-", "0", "1", "-", "1", "5">>

Dates == {Date1}

\* the longest entries list explored
MaxEntries == 2

\* Entry: the comment is never read
Entries ==
    [QuestionID : QuestionIDs, Answer : Answers, Comment : {<<>>}]

EntryLists == UNION {[1..n -> Entries] : n \in 0..MaxEntries}

\* Config, the value the TOML file decodes to
ZeroConfig == [FormURL |-> <<>>, Entries |-> <<>>]

Configs == [FormURL : FormURLs, Entries : EntryLists]

\* the configuration file at cfgPath: absent, not valid TOML, or a Config
ConfigFiles ==
    {[state |-> "missing", content |-> ZeroConfig],
     [state |-> "malformed", content |-> ZeroConfig]}
        \cup [state : {"ok"}, content : Configs]

NoError == [kind |-> "none", index |-> -1]

(***************************************************************************)
(* State                                                                   *)
(***************************************************************************)
VARIABLES
    file,       \* the configuration file main reads
    today,      \* time.Now().Format("2006-01-02")
    pc,         \* where the process is
    cfg,        \* main's cfg
    u,          \* buildPrefillURL's u
    q,          \* buildPrefillURL's q
    i,          \* the loop position in cfg.Entries, 1-based
    encoded,    \* buildPrefillURL's results
    decoded,
    err,
    stdout,     \* the lines printed to standard output
    stderr,     \* the messages printed to standard error
    exitCode    \* the exit status, -1 while running

vars == <<file, today, pc, cfg, u, q, i, encoded, decoded, err, stdout, stderr, exitCode>>

Init ==
    /\ file \in ConfigFiles
    /\ today \in Dates
    /\ pc = "main"
    /\ cfg = ZeroConfig
    /\ u = EmptyURL
    /\ q = NoValues
    /\ i = 0
    /\ encoded = <<>>
    /\ decoded = <<>>
    /\ err = NoError
    /\ stdout = <<>>
    /\ stderr = <<>>
    /\ exitCode = -1

(***************************************************************************)
(* loadConfig: [err, cfg]                                                  *)
(***************************************************************************)
loadConfig(f) ==
    IF f.state = "missing" THEN [err |-> "stat", cfg |-> ZeroConfig]
    ELSE IF f.state = "malformed" THEN [err |-> "toml", cfg |-> ZeroConfig]
    ELSE IF f.content.FormURL = <<>> THEN [err |-> "emptyFormURL", cfg |-> f.content]
    ELSE [err |-> "none", cfg |-> f.content]

\* MainLoadConfig without the os.Exit(1) after a failed loadConfig
MainLoadConfig_mut ==
    /\ pc = "main"
    /\ LET r == loadConfig(file) IN
       /\ stderr' = IF r.err # "none"
                    THEN Append(stderr, [what |-> "loadConfig", cause |-> r.err])
                    ELSE stderr
       /\ cfg' = r.cfg
       /\ pc' = "build"
    /\ UNCHANGED <<file, today, u, q, i, encoded, decoded, err, stdout, exitCode>>

\* main, up to the call of buildPrefillURL
MainLoadConfig ==
    /\ pc = "main"
    /\ LET r == loadConfig(file) IN
       IF r.err # "none"
       THEN /\ stderr' = Append(stderr, [what |-> "loadConfig", cause |-> r.err])
            /\ exitCode' = 1
            /\ pc' = "exited"
            /\ cfg' = r.cfg
       ELSE /\ cfg' = r.cfg
            /\ pc' = "build"
            /\ UNCHANGED <<stderr, exitCode>>
    /\ UNCHANGED <<file, today, u, q, i, encoded, decoded, err, stdout>>

(***************************************************************************)
(* buildPrefillURL                                                         *)
(***************************************************************************)
\* url.Parse(cfg.FormURL) and u.Query()
BuildParse ==
    /\ pc = "build"
    /\ LET r == Parse(cfg.FormURL) IN
       IF ~r.ok
       THEN /\ err' = [kind |-> "parse", index |-> -1]
            /\ encoded' = <<>>
            /\ decoded' = <<>>
            /\ pc' = "returned"
            /\ UNCHANGED <<u, q>>
       ELSE /\ u' = r.url
            /\ q' = Query(r.url)
            /\ pc' = "usp"
            /\ UNCHANGED <<err, encoded, decoded>>
    /\ UNCHANGED <<file, today, cfg, i, stdout, stderr, exitCode>>

\* SetUsp with q.Add in place of q.Set
SetUsp_mut(v) ==
    ValuesAdd(IF ValuesGet(v, S_usp) = S_sf_link THEN ValuesDel(v, S_usp) ELSE v,
              S_usp, S_pp_url)

\* q after the usp rewrite
SetUsp(v) ==
    ValuesSet(IF ValuesGet(v, S_usp) = S_sf_link THEN ValuesDel(v, S_usp) ELSE v,
              S_usp, S_pp_url)

BuildUsp ==
    /\ pc = "usp"
    /\ q' = SetUsp(q)
    /\ i' = 1
    /\ pc' = "entries"
    /\ UNCHANGED <<file, today, cfg, u, encoded, decoded, err, stdout, stderr, exitCode>>

\* EffectiveAnswer substituting wherever the token occurs in the answer
EffectiveAnswer_mut(e, day) == IF Contains(e.Answer, S_today) THEN day ELSE e.Answer

\* the answer written for entry e
EffectiveAnswer(e, day) == IF e.Answer = S_today THEN day ELSE e.Answer

\* SetEntry with q.Add in place of q.Set
SetEntry_mut(v, e, day) == ValuesAdd(v, S_entryDot \o e.QuestionID, EffectiveAnswer(e, day))

\* q after the loop body for entry e
SetEntry(v, e, day) == ValuesSet(v, S_entryDot \o e.QuestionID, EffectiveAnswer(e, day))

\* ReportedIndex counting from 1
ReportedIndex_mut(k) == k

\* the index reported for the entry at loop position k
ReportedIndex(k) == k - 1

\* one iteration of the loop over cfg.Entries
BuildEntry ==
    /\ pc = "entries"
    /\ i <= Len(cfg.Entries)
    /\ LET e == cfg.Entries[i] IN
       IF e.QuestionID = <<>>
       THEN /\ err' = [kind |-> "validation", index |-> ReportedIndex(i)]
            /\ encoded' = <<>>
            /\ decoded' = <<>>
            /\ pc' = "returned"
            /\ UNCHANGED <<q, i>>
       ELSE /\ q' = SetEntry(q, e, today)
            /\ i' = i + 1
            /\ UNCHANGED <<err, encoded, decoded, pc>>
    /\ UNCHANGED <<file, today, cfg, u, stdout, stderr, exitCode>>

\* the hand-assembled display URL
DecodedURL(url, decodedQuery) ==
    (IF url.Scheme # <<>> THEN url.Scheme \o <<":", "/", "/">> ELSE <<>>)
        \o url.Host \o url.Path
        \o (IF decodedQuery # <<>> THEN <<"?">> \o decodedQuery ELSE <<>>)
        \o (IF url.Fragment # <<>> THEN <<"#">> \o url.Fragment ELSE <<>>)

\* after the loop: encode, unescape, assemble, return
BuildFinish ==
    /\ pc = "entries"
    /\ i > Len(cfg.Entries)
    /\ LET u1 == [u EXCEPT !.RawQuery = Encode(q)] IN
       /\ u' = u1
       /\ IF ~QueryUnescapeOK(u1.RawQuery)
          THEN /\ err' = [kind |-> "decode", index |-> -1]
               /\ encoded' = <<>>
               /\ decoded' = <<>>
          ELSE /\ err' = NoError
               /\ encoded' = URLString(u1)
               /\ decoded' = DecodedURL(u1, QueryUnescape(u1.RawQuery))
    /\ pc' = "returned"
    /\ UNCHANGED <<file, today, cfg, q, i, stdout, stderr, exitCode>>

\* main, after buildPrefillURL returned
MainReport ==
    /\ pc = "returned"
    /\ IF err.kind # "none"
       THEN /\ stderr' = Append(stderr, [what |-> "buildPrefillURL", cause |-> err.kind])
            /\ exitCode' = 1
            /\ UNCHANGED stdout
       ELSE /\ stdout' = stdout \o <<EncodedHeader, encoded, <<>>, DecodedHeader, decoded>>
            /\ exitCode' = 0
            /\ UNCHANGED stderr
    /\ pc' = "exited"
    /\ UNCHANGED <<file, today, cfg, u, q, i, encoded, decoded, err>>

Next ==
    \/ MainLoadConfig
    \/ BuildParse
    \/ BuildUsp
    \/ BuildEntry
    \/ BuildFinish
    \/ MainReport

Spec == Init /\ [][Next]_vars

(***************************************************************************)
(* Properties                                                              *)
(***************************************************************************)
\* buildPrefillURL has returned to main
Returned == pc = "returned"

ReturnedOK == pc = "returned" /\ err.kind = "none"

\* the query component of a URL string: between the first "?" and the "#"
QueryOf(s) == CutAfter(CutBefore(s, "#"), "?")

\* the parameters of the encoded URL's query
OutParams == parseQuery(NoValues, QueryOf(encoded))

\* the parameters of the base URL's query that parse
BaseParams == parseQuery(NoValues, QueryOf(cfg.FormURL))

EntryKey(e) == S_entryDot \o e.QuestionID

EntryKeys == {EntryKey(cfg.Entries[k]) : k \in 1..Len(cfg.Entries)}

\* position k holds the last entry with its questionID
IsLast(k) ==
    \A j \in (k + 1)..Len(cfg.Entries) : cfg.Entries[j].QuestionID # cfg.Entries[k].QuestionID

\* what the claims call the effective answer of an entry
Expected(e) == IF e.Answer = S_today THEN today ELSE e.Answer

HasEmptyID == \E k \in 1..Len(cfg.Entries) : cfg.Entries[k].QuestionID = <<>>

FirstEmptyID ==
    CHOOSE k \in 1..Len(cfg.Entries) :
        /\ cfg.Entries[k].QuestionID = <<>>
        /\ \A j \in 1..(k - 1) : cfg.Entries[j].QuestionID # <<>>

\* C1: after a successful buildPrefillURL the query of the encoded URL has
\* parameter usp with exactly the one value pp_url, whatever usp values the
\* base URL's query had.
C1_UspIsPpUrl ==
    ReturnedOK => (S_usp \in DOMAIN OutParams /\ OutParams[S_usp] = <<S_pp_url>>)

\* C1 witness: a successful build on a base URL with several usp values, the
\* first of them not sf_link, so that nothing was deleted before the Set.
C1_Witness ==
    /\ ReturnedOK
    /\ S_usp \in DOMAIN BaseParams
    /\ Len(BaseParams[S_usp]) >= 2
    /\ BaseParams[S_usp][1] # S_sf_link
    /\ Len(cfg.Entries) > 0

\* the pairs of a query string as written, split at "&"
RECURSIVE RawPairs(_)
RawPairs(query) ==
    IF query = <<>> THEN <<>>
    ELSE (IF CutBefore(query, "&") = <<>> THEN <<>> ELSE <<CutBefore(query, "&")>>)
            \o RawPairs(CutAfter(query, "&"))

\* a name or value as written, percent-decoded when it can be
Lenient(s) == IF QueryUnescapeOK(s) THEN QueryUnescape(s) ELSE s

RawName(pair) == Lenient(CutBefore(pair, "="))

RawValue(pair) == Lenient(CutAfter(pair, "="))

\* the values, in order, that the pairs give to name
RECURSIVE RawValuesOf(_, _)
RawValuesOf(pairs, name) ==
    IF pairs = <<>> THEN <<>>
    ELSE (IF RawName(pairs[1]) = name THEN <<RawValue(pairs[1])>> ELSE <<>>)
            \o RawValuesOf(Tail(pairs), name)

\* every parameter written in the base URL's query
BasePairs == RawPairs(QueryOf(cfg.FormURL))

BaseNames == {RawName(BasePairs[k]) : k \in 1..Len(BasePairs)}

\* C2: after a successful buildPrefillURL every parameter of the base URL's
\* query other than usp and the entries' entry.<questionID> is in the output
\* query with the values it had, and the output query has no name besides
\* usp, the entries' names and the base URL's names.
C2_OthersUnaltered ==
    ReturnedOK =>
        /\ \A name \in BaseNames \ ({S_usp} \cup EntryKeys) :
               /\ name \in DOMAIN OutParams
               /\ OutParams[name] = RawValuesOf(BasePairs, name)
        /\ DOMAIN OutParams \subseteq ({S_usp} \cup EntryKeys \cup BaseNames)

\* C3 as claimed: every entry whose answer is {today} has its entry.<id>
\* parameter equal to the date in both outputs, and every other entry has
\* its answer verbatim.
C3_EveryEntry ==
    ReturnedOK =>
        \A k \in 1..Len(cfg.Entries) :
            LET e == cfg.Entries[k] IN
            /\ OutParams[EntryKey(e)] = <<Expected(e)>>
            /\ Contains(encoded, QueryEscape(EntryKey(e)) \o <<"=">> \o QueryEscape(Expected(e)))
            /\ Contains(decoded, EntryKey(e) \o <<"=">> \o Expected(e))

\* C3 amended: every entry that is the last one with its questionID has, in
\* both outputs, its entry.<id> parameter equal to the date when its answer
\* is exactly {today}, and equal to the answer as written otherwise.
C3_LastEntry ==
    ReturnedOK =>
        \A k \in 1..Len(cfg.Entries) :
            LET e == cfg.Entries[k]
                value == IF e.Answer = S_today THEN today ELSE e.Answer
            IN  IsLast(k) =>
                    /\ OutParams[EntryKey(e)] = <<value>>
                    /\ Contains(encoded, QueryEscape(EntryKey(e)) \o <<"=">> \o QueryEscape(value))
                    /\ Contains(decoded, EntryKey(e) \o <<"=">> \o value)

\* C3 witness: a successful build with an entry whose answer is {today} and
\* an entry whose answer only contains {today}.
C3_Witness ==
    /\ ReturnedOK
    /\ Len(cfg.Entries) = 2
    /\ cfg.Entries[1].QuestionID # cfg.Entries[2].QuestionID
    /\ cfg.Entries[1].Answer = S_today
    /\ cfg.Entries[2].Answer = NearToday

\* C4: after a successful buildPrefillURL, for every questionID q of the
\* entries, entry.q has exactly one value, the effective answer of the last
\* entry with that questionID; earlier entries and the base URL's entry.q
\* are overwritten.
C4_LastWriteWins ==
    ReturnedOK =>
        \A k \in 1..Len(cfg.Entries) :
            LET last == CHOOSE j \in k..Len(cfg.Entries) :
                            /\ cfg.Entries[j].QuestionID = cfg.Entries[k].QuestionID
                            /\ IsLast(j)
            IN  /\ EntryKey(cfg.Entries[k]) \in DOMAIN OutParams
                /\ Len(OutParams[EntryKey(cfg.Entries[k])]) = 1
                /\ OutParams[EntryKey(cfg.Entries[k])][1] = Expected(cfg.Entries[last])

\* C4 witness: a successful build with two entries of the same questionID and
\* different answers, on a base URL that already had that entry parameter.
C4_Witness ==
    /\ ReturnedOK
    /\ Len(cfg.Entries) = 2
    /\ cfg.Entries[1].QuestionID = cfg.Entries[2].QuestionID
    /\ cfg.Entries[1].Answer # cfg.Entries[2].Answer
    /\ EntryKey(cfg.Entries[1]) \in DOMAIN BaseParams

\* usp=pp_url&entry.1=Tokyo
UspThenEntry ==
    <<"u", "s", "p", "=", "p", "p", "_", "u", "r", "l", "&", "e", "n", "t", "r", "y", ".", "1", "=", "T", "o", "k", "y", "o">>

\* entry.1=Tokyo&usp=pp_url
EntryThenUsp ==
    <<"e", "n", "t", "r", "y", ".", "1", "=", "T", "o", "k", "y", "o", "&", "u", "s", "p", "=", "p", "p", "_", "u", "r", "l">>

\* usp=sf_link
UspSfLink == <<"u", "s", "p", "=", "s", "f", "_", "l", "i", "n", "k">>

\* the scenario: the Google Forms base URL and the one entry 1 = Tokyo
Scenario ==
    /\ cfg.FormURL = ScenarioURL
    /\ cfg.Entries = <<[QuestionID |-> Id1, Answer |-> Tokyo, Comment |-> <<>>]>>

\* the names of the pairs of a query string are in increasing order
KeysSorted(query) ==
    \A k \in 1..(Len(RawPairs(query)) - 1) :
        LET a == CutBefore(RawPairs(query)[k], "=")
            b == CutBefore(RawPairs(query)[k + 1], "=")
        IN  a = b \/ StrLess(a, b)

\* C5 as claimed: in the scenario the encoded URL contains
\* usp=pp_url&entry.1=Tokyo and no usp=sf_link.
C5_UspFirst ==
    (Returned /\ Scenario) =>
        /\ err.kind = "none"
        /\ Contains(encoded, UspThenEntry)
        /\ ~Contains(encoded, UspSfLink)

\* C5 amended: in the scenario the encoded URL's parameters are in sorted-key
\* order, so it contains entry.1=Tokyo&usp=pp_url, and no usp=sf_link.
C5_SortedKeys ==
    (Returned /\ Scenario) =>
        /\ err.kind = "none"
        /\ KeysSorted(QueryOf(encoded))
        /\ Contains(encoded, EntryThenUsp)
        /\ ~Contains(encoded, UspSfLink)

\* C5 witness: the scenario's build has returned its URLs.
C5_Witness == ReturnedOK /\ Scenario /\ encoded # <<>>

\* C6: when the base URL parses and some entry has an empty questionID, the
\* loop never goes past the first such entry, and buildPrefillURL returns a
\* validation error with that entry's 0-based index and two empty strings.
C6_EmptyQuestionID ==
    (HasEmptyID /\ Parse(cfg.FormURL).ok) =>
        /\ pc \in {"entries", "returned"} => i <= FirstEmptyID
        /\ Returned =>
               /\ err = [kind |-> "validation", index |-> FirstEmptyID - 1]
               /\ i = FirstEmptyID
               /\ encoded = <<>>
               /\ decoded = <<>>
               /\ \A k \in (FirstEmptyID + 1)..Len(cfg.Entries) :
                      EntryKey(cfg.Entries[k]) \in DOMAIN q =>
                          \/ EntryKey(cfg.Entries[k]) \in DOMAIN BaseParams
                          \/ \E j \in 1..(FirstEmptyID - 1) :
                                 cfg.Entries[j].QuestionID = cfg.Entries[k].QuestionID

\* C6 witness: the first entry has an empty questionID and a valid entry
\* follows it; the call has failed at index 0.
C6_Witness ==
    /\ Returned
    /\ Len(cfg.Entries) = 2
    /\ cfg.Entries[1].QuestionID = <<>>
    /\ cfg.Entries[2].QuestionID # <<>>
    /\ err.kind = "validation"
    /\ err.index = 0

\* C7: with base URL "not a url" buildPrefillURL fails with the form_url
\* parse error and produces no URL.
C7_NotAURLFails ==
    (Returned /\ cfg.FormURL = NotAURL) =>
        /\ err.kind = "parse"
        /\ encoded = <<>>
        /\ decoded = <<>>

\* C8: after a successful buildPrefillURL the decoded URL is the encoded URL
\* with its query component query-unescaped: the text before the "?" and the
\* fragment are the same strings in both.
C8_DecodedIsEncoded ==
    ReturnedOK =>
        decoded = CutBefore(CutBefore(encoded, "#"), "?")
                    \o <<"?">> \o QueryUnescape(QueryOf(encoded))
                    \o (IF HasByte(encoded, "#") THEN <<"#">> \o CutAfter(encoded, "#") ELSE <<>>)

\* C9: buildPrefillURL returns two non-empty strings and no error, or two
\* empty strings and an error; main prints the encoded and then the decoded
\* URL and exits 0 only when loadConfig and buildPrefillURL both succeeded,
\* otherwise it prints nothing to standard output, one message to standard
\* error and exits 1; buildPrefillURL never runs after loadConfig failed.
C9_BothOrNone ==
    /\ Returned =>
           \/ err.kind = "none" /\ encoded # <<>> /\ decoded # <<>>
           \/ err.kind # "none" /\ encoded = <<>> /\ decoded = <<>>
    /\ pc \in {"build", "usp", "entries", "returned"} =>
           /\ file.state = "ok"
           /\ cfg.FormURL # <<>>
           /\ stderr = <<>>
    /\ pc # "exited" => (stdout = <<>> /\ exitCode = -1)
    /\ pc = "exited" =>
           \/ /\ exitCode = 0
              /\ file.state = "ok"
              /\ err.kind = "none"
              /\ encoded # <<>>
              /\ decoded # <<>>
              /\ stdout = <<EncodedHeader, encoded, <<>>, DecodedHeader, decoded>>
              /\ stderr = <<>>
           \/ /\ exitCode = 1
              /\ stdout = <<>>
              /\ Len(stderr) = 1
              /\ \/ stderr[1].what = "loadConfig" /\ u = EmptyURL /\ q = NoValues
                 \/ stderr[1].what = "buildPrefillURL" /\ err.kind # "none"

\* C9 witness: main has exited after loadConfig rejected an empty form_url.
C9_Witness ==
    /\ pc = "exited"
    /\ file.state = "ok"
    /\ file.content.FormURL = <<>>
    /\ exitCode = 1

\* C10: buildPrefillURL never returns the decode error: when the base URL
\* parses and no questionID is empty, unescaping the encoded query succeeds
\* and both URLs are returned.
C10_NoDecodeError ==
    Returned =>
        /\ err.kind # "decode"
        /\ (Parse(cfg.FormURL).ok /\ ~HasEmptyID) =>
               /\ err.kind = "none"
               /\ QueryUnescapeOK(u.RawQuery)
               /\ encoded # <<>>
               /\ decoded # <<>>

\* C10 witness: a successful build on a base URL whose query has malformed
\* percent-sequences, with an answer that contains "%", "&", "=" and a space.
C10_Witness ==
    /\ ReturnedOK
    /\ cfg.FormURL \in {MalformedQueryURL, SemicolonURL}
    /\ \E k \in 1..Len(cfg.Entries) : cfg.Entries[k].Answer = Special

====
